---- MODULE Spec2Model ----
(***************************************************************************)
(* Model of DbiStream::reload (lib/DebugInfo/PDB/Raw/DbiStream.cpp): the   *)
(* single decode-and-validate pass over the PDB "Dbi" stream, one action   *)
(* per step of reload, plus visitSectionContributions on a loaded stream.  *)
(*                                                                         *)
(* The stream is given by its header fields, its total length and the      *)
(* contents of the slices the header-declared sizes cut out of it.  The    *)
(* file-info slice is modelled byte by byte (little-endian fields, a       *)
(* NUL-separated names buffer); the other slices by the quantities the     *)
(* code reads from them.  Byte counts are the real ones.                   *)
(***************************************************************************)
EXTENDS Integers, Sequences, FiniteSets, TLC

(***************************************************************************)
(* Bounds of the explored inputs.                                          *)
(***************************************************************************)
MaxModules == 2
MaxFileCount == 2

(***************************************************************************)
(* Program constants.                                                      *)
(***************************************************************************)
\* sizeof(HeaderInfo), static_assert at DbiStream.cpp:98
HeaderInfoSize == 64
\* sizeof(uint32_t), the alignment unit of DbiStream.cpp:142-157
Uint32Size == 4
\* sizeof(ulittle16_t), the element size of DbgStreams (DbiStream.cpp:180-181)
Ulittle16Size == 2
\* sizeof(FileInfoSubstreamHeader): two ulittle16_t (DbiStream.cpp:356-363)
FileInfoSubstreamHeaderSize == 4
\* RawConstants.h: PdbRaw_DbiVer::PdbDbiV70
PdbDbiV70 == 19990903
\* RawConstants.h: PdbRaw_DbiVer::PdbDbiV60, an older version
PdbDbiV60 == 19970606
\* RawConstants.h: the 4 bytes (little-endian) of DbiSecContribVer60,
\* 0xeffe0000 + 19970605, and of DbiSecContribV2, 0xeffe0000 + 20140516
DbiSecContribVer60 == <<45, 186, 46, 241>>
DbiSecContribV2 == <<228, 81, 49, 241>>
\* RawTypes.h: sizeof(SectionContrib), sizeof(SectionContrib2)
SectionContribSize == 28
SectionContrib2Size == 32
\* RawTypes.h: sizeof(SecMapHeader), sizeof(SecMapEntry)
SecMapHeaderSize == 4
SecMapEntrySize == 20
\* Object/COFF.h: sizeof(object::coff_section), sizeof(object::FpoData)
CoffSectionSize == 40
FpoDataSize == 16
\* ModInfo.h: sizeof(ModInfo::FileLayout), the fixed prefix of a module record
ModInfoFileLayoutSize == 64
\* RawConstants.h: DbgHeaderType::SectionHdr and DbgHeaderType::NewFPO
DbgHeaderType_SectionHdr == 5
DbgHeaderType_NewFPO == 9
\* RawConstants.h: InvalidStreamIndex, the all-ones 16-bit sentinel
InvalidStreamIndex == 65535

(***************************************************************************)
(* Errors.  kind is the raw_error_code (or, for the bounds-checked reads   *)
(* of StreamReader, the codeview error), msg the message of the            *)
(* make_error call.                                                        *)
(***************************************************************************)
Success == [kind |-> "success", msg |-> ""]
RawError(k, m) == [kind |-> k, msg |-> m]
InsufficientBuffer == [kind |-> "insufficient_buffer", msg |-> ""]
IsError(e) == e.kind # "success"

(***************************************************************************)
(* Little-endian field decoding (support::ulittle16_t, ulittle32_t) over   *)
(* a 1-based byte sequence; off is a 0-based byte offset.                  *)
(***************************************************************************)
ReadU16(bytes, off) == bytes[off + 1] + 256 * bytes[off + 2]
ReadU32(bytes, off) ==
    bytes[off + 1] + 256 * bytes[off + 2] + 65536 * bytes[off + 3]
        + 16777216 * bytes[off + 4]
U16Bytes(v) == <<v % 256, (v \div 256) % 256>>
U32Bytes(v) ==
    <<v % 256, (v \div 256) % 256, (v \div 65536) % 256, (v \div 16777216) % 256>>

RECURSIVE Concat(_)
Concat(ss) == IF ss = <<>> THEN <<>> ELSE Head(ss) \o Concat(Tail(ss))

RECURSIVE SumSeq(_)
SumSeq(s) == IF s = <<>> THEN 0 ELSE Head(s) + SumSeq(Tail(s))

\* StreamReader's bounds check: a read of Size bytes (an int32 field passed
\* as uint32_t) from a reader with Remaining bytes left.  A negative int32
\* converts to a uint32_t of at least 2^31, beyond any stream modelled here.
ReadFits(Size, Remaining) == Size >= 0 /\ Size <= Remaining

(***************************************************************************)
(* reload, lines 106-157: the header checks.                               *)
(***************************************************************************)
\* A variant that leaves the optional debug header out of the sum.
SubstreamsLengthSix(H) ==
    HeaderInfoSize + H.ModiSubstreamSize + H.SecContrSubstreamSize
        + H.SectionMapSize + H.FileInfoSize + H.TypeServerSize
        + H.ECSubstreamSize

\* DbiStream.cpp:133-136.  The sum is formed in size_t from int32 fields; it
\* equals the (uint32) stream length exactly when the integer sum does.
SubstreamsLength(H) ==
    HeaderInfoSize + H.ModiSubstreamSize + H.SecContrSubstreamSize
        + H.SectionMapSize + H.FileInfoSize + H.TypeServerSize
        + H.OptionalDbgHdrSize + H.ECSubstreamSize

\* A variant that never compares the ages.
AgeMatchesAlways(H, IS) == TRUE

\* DbiStream.cpp:128
AgeMatches(H, IS) == H.Age = IS.Age

\* A variant that checks four substreams and leaves the type-server map out.
AlignmentCheckFour(H) ==
    IF H.ModiSubstreamSize % Uint32Size # 0
    THEN RawError("corrupt_file", "DBI MODI substream not aligned.")
    ELSE IF H.SecContrSubstreamSize % Uint32Size # 0
    THEN RawError("corrupt_file", "DBI section contribution substream not aligned.")
    ELSE IF H.SectionMapSize % Uint32Size # 0
    THEN RawError("corrupt_file", "DBI section map substream not aligned.")
    ELSE IF H.FileInfoSize % Uint32Size # 0
    THEN RawError("corrupt_file", "DBI file info substream not aligned.")
    ELSE Success

\* DbiStream.cpp:142-157: the first substream whose size is not a multiple of
\* sizeof(uint32_t) decides the error; Success when all five are aligned.
AlignmentCheck(H) ==
    IF H.ModiSubstreamSize % Uint32Size # 0
    THEN RawError("corrupt_file", "DBI MODI substream not aligned.")
    ELSE IF H.SecContrSubstreamSize % Uint32Size # 0
    THEN RawError("corrupt_file", "DBI section contribution substream not aligned.")
    ELSE IF H.SectionMapSize % Uint32Size # 0
    THEN RawError("corrupt_file", "DBI section map substream not aligned.")
    ELSE IF H.FileInfoSize % Uint32Size # 0
    THEN RawError("corrupt_file", "DBI file info substream not aligned.")
    ELSE IF H.TypeServerSize % Uint32Size # 0
    THEN RawError("corrupt_file", "DBI type server substream not aligned.")
    ELSE Success

\* DbiStream.cpp:106-157, in the order of the code.
HeaderChecks(inp) ==
    LET H == inp.Header IN
    IF inp.Length < HeaderInfoSize
    THEN RawError("corrupt_file", "DBI Stream does not contain a header.")
    ELSE IF H.VersionSignature # -1
    THEN RawError("corrupt_file", "Invalid DBI version signature.")
    ELSE IF H.VersionHeader < PdbDbiV70
    THEN RawError("feature_unsupported", "Unsupported DBI version.")
    ELSE IF ~inp.InfoStream.ok
    THEN inp.InfoStream.err
    ELSE IF ~AgeMatches(H, inp.InfoStream)
    THEN RawError("corrupt_file", "DBI Age does not match PDB Age.")
    ELSE IF inp.Length # SubstreamsLength(H)
    THEN RawError("corrupt_file", "DBI Length does not equal sum of substreams.")
    ELSE AlignmentCheck(H)

(***************************************************************************)
(* reload, lines 159-166: the module-info region is read as a              *)
(* VarStreamArray<ModInfo> and iterated.                                   *)
(***************************************************************************)
Align4(n) == ((n + 3) \div 4) * 4

\* ModInfo.h: a record is the fixed FileLayout followed by two
\* NUL-terminated strings, padded to a multiple of 4.
ModInfoRecordLength(rec) ==
    Align4(ModInfoFileLayoutSize + rec.ModuleNameLen + 1 + rec.ObjFileNameLen + 1)

\* VarStreamArray iteration: one record after another while bytes remain and
\* the next record fits.
RECURSIVE IterateModInfo(_, _)
IterateModInfo(recs, remaining) ==
    IF recs = <<>> \/ remaining <= 0 \/ ModInfoRecordLength(Head(recs)) > remaining
    THEN <<>>
    ELSE <<Head(recs)>>
             \o IterateModInfo(Tail(recs), remaining - ModInfoRecordLength(Head(recs)))

\* DbiStream.cpp:164-166
EmplaceModuleInfos(infos) ==
    [i \in 1..Len(infos) |-> [Info |-> infos[i], SourceFiles |-> <<>>]]

(***************************************************************************)
(* loadSectionContribs and initializeSectionContributionData.              *)
(***************************************************************************)
\* DbiStream.cpp:82-94.  The array is given by the byte offsets of its
\* records in the payload that follows the version tag.
loadSectionContribs(RecordSize, BytesRemaining) ==
    IF BytesRemaining % RecordSize # 0
    THEN [err |-> RawError("corrupt_file",
                           "Invalid number of bytes of section contributions"),
          Output |-> <<>>]
    ELSE [err |-> Success,
          Output |-> [i \in 1..(BytesRemaining \div RecordSize) |->
                          (i - 1) * RecordSize]]

\* A variant that loads the V2 records with the V60 layout into the V60 array.
initializeSectionContributionDataOneLayout(Sub, OldVersion) ==
    IF ~ReadFits(Uint32Size, Sub.Size)
    THEN [err |-> InsufficientBuffer, Version |-> OldVersion,
          SectionContribs |-> <<>>, SectionContribs2 |-> <<>>]
    ELSE IF Sub.Tag = DbiSecContribVer60 \/ Sub.Tag = DbiSecContribV2
    THEN LET r == loadSectionContribs(SectionContribSize, Sub.Size - Uint32Size)
         IN [err |-> r.err, Version |-> Sub.Tag,
             SectionContribs |-> r.Output, SectionContribs2 |-> <<>>]
    ELSE [err |-> RawError("feature_unsupported",
                           "Unsupported DBI Section Contribution version"),
          Version |-> Sub.Tag,
          SectionContribs |-> <<>>, SectionContribs2 |-> <<>>]

\* DbiStream.cpp:277-289
initializeSectionContributionData(Sub, OldVersion) ==
    IF ~ReadFits(Uint32Size, Sub.Size)
    THEN [err |-> InsufficientBuffer, Version |-> OldVersion,
          SectionContribs |-> <<>>, SectionContribs2 |-> <<>>]
    ELSE IF Sub.Tag = DbiSecContribVer60
    THEN LET r == loadSectionContribs(SectionContribSize, Sub.Size - Uint32Size)
         IN [err |-> r.err, Version |-> Sub.Tag,
             SectionContribs |-> r.Output, SectionContribs2 |-> <<>>]
    ELSE IF Sub.Tag = DbiSecContribV2
    THEN LET r == loadSectionContribs(SectionContrib2Size, Sub.Size - Uint32Size)
         IN [err |-> r.err, Version |-> Sub.Tag,
             SectionContribs |-> <<>>, SectionContribs2 |-> r.Output]
    ELSE [err |-> RawError("feature_unsupported",
                           "Unsupported DBI Section Contribution version"),
          Version |-> Sub.Tag,
          SectionContribs |-> <<>>, SectionContribs2 |-> <<>>]

\* DbiStream.cpp:266-275: the records handed to the visitor, in order.
visitSectionContributions(Version, SC, SC2) ==
    IF Version = DbiSecContribVer60
    THEN [i \in 1..Len(SC) |-> [Layout |-> "SectionContrib", Record |-> SC[i]]]
    ELSE IF Version = DbiSecContribV2
    THEN [i \in 1..Len(SC2) |-> [Layout |-> "SectionContrib2", Record |-> SC2[i]]]
    ELSE <<>>

(***************************************************************************)
(* getDebugStreamIndex and the two indexed auxiliary streams.              *)
(***************************************************************************)
\* The outcome of an out-of-range element read (the build either stops in
\* FixedStreamArray::operator[] or goes on with whatever it read).
Crashed == -1
GarbageStreamNums(NumStreams) == {0, NumStreams, InvalidStreamIndex}

\* DbiStream.cpp:439-441: DbgStreams[Type], with no check of Type against the
\* number of elements.
getDebugStreamIndex(Dbg, Type, NumStreams) ==
    IF Type < Len(Dbg)
    THEN {Dbg[Type + 1]}
    ELSE {Crashed} \cup GarbageStreamNums(NumStreams)

\* MappedBlockStream::createIndexedStream followed by getLength
IndexedStreamLength(Pdb, StreamNum) == Pdb[StreamNum + 1]

\* DbiStream.cpp:292-314
initializeSectionHeadersData(StreamNum, Pdb) ==
    IF StreamNum >= Len(Pdb)
    THEN [err |-> RawError("no_stream", ""), Records |-> <<>>, Fetched |-> <<>>]
    ELSE LET StreamLen == IndexedStreamLength(Pdb, StreamNum) IN
         IF StreamLen % CoffSectionSize # 0
         THEN [err |-> RawError("corrupt_file", "Corrupted section header stream."),
               Records |-> <<>>, Fetched |-> <<StreamNum>>]
         ELSE [err |-> Success,
               Records |-> [i \in 1..(StreamLen \div CoffSectionSize) |->
                                (i - 1) * CoffSectionSize],
               Fetched |-> <<StreamNum>>]

\* A variant without the test for the sentinel.
initializeFpoRecordsNoSentinel(StreamNum, Pdb) ==
    IF StreamNum >= Len(Pdb)
    THEN [err |-> RawError("no_stream", ""), Records |-> <<>>, Fetched |-> <<>>]
    ELSE LET StreamLen == IndexedStreamLength(Pdb, StreamNum) IN
         IF StreamLen % FpoDataSize # 0
         THEN [err |-> RawError("corrupt_file", "Corrupted New FPO stream."),
               Records |-> <<>>, Fetched |-> <<StreamNum>>]
         ELSE [err |-> Success,
               Records |-> [i \in 1..(StreamLen \div FpoDataSize) |->
                                (i - 1) * FpoDataSize],
               Fetched |-> <<StreamNum>>]

\* DbiStream.cpp:317-343
initializeFpoRecords(StreamNum, Pdb) ==
    IF StreamNum = InvalidStreamIndex
    THEN [err |-> Success, Records |-> <<>>, Fetched |-> <<>>]
    ELSE IF StreamNum >= Len(Pdb)
    THEN [err |-> RawError("no_stream", ""), Records |-> <<>>, Fetched |-> <<>>]
    ELSE LET StreamLen == IndexedStreamLength(Pdb, StreamNum) IN
         IF StreamLen % FpoDataSize # 0
         THEN [err |-> RawError("corrupt_file", "Corrupted New FPO stream."),
               Records |-> <<>>, Fetched |-> <<StreamNum>>]
         ELSE [err |-> Success,
               Records |-> [i \in 1..(StreamLen \div FpoDataSize) |->
                                (i - 1) * FpoDataSize],
               Fetched |-> <<StreamNum>>]

(***************************************************************************)
(* initializeSectionMapData, DbiStream.cpp:345-353.                        *)
(***************************************************************************)
initializeSectionMapData(Sub) ==
    IF ~ReadFits(SecMapHeaderSize, Sub.Size)
    THEN [err |-> InsufficientBuffer, SectionMap |-> <<>>]
    ELSE IF ~ReadFits(Sub.SecCount * SecMapEntrySize, Sub.Size - SecMapHeaderSize)
    THEN [err |-> InsufficientBuffer, SectionMap |-> <<>>]
    ELSE [err |-> Success,
          SectionMap |-> [i \in 1..Sub.SecCount |->
                              SecMapHeaderSize + (i - 1) * SecMapEntrySize]]

(***************************************************************************)
(* initializeFileInfo and getFileNameForIndex, DbiStream.cpp:355-454, over *)
(* the bytes of the file-info substream.                                   *)
(***************************************************************************)
\* StreamReader::readZeroString at 0-based offset off: the bytes up to the
\* next NUL, or an error when the buffer ends first.
RECURSIVE ZeroStringLength(_, _)
ZeroStringLength(buf, off) ==
    IF off >= Len(buf) THEN -1
    ELSE IF buf[off + 1] = 0 THEN 0
    ELSE LET rest == ZeroStringLength(buf, off + 1)
         IN IF rest < 0 THEN -1 ELSE rest + 1

readZeroString(buf, off) ==
    LET n == ZeroStringLength(buf, off) IN
    IF n < 0
    THEN [err |-> InsufficientBuffer, Name |-> <<>>]
    ELSE [err |-> Success, Name |-> SubSeq(buf, off + 1, off + n)]

\* DbiStream.cpp:443-454
getFileNameForIndex(Index, FileNameOffsets, NamesBuffer) ==
    IF Index >= Len(FileNameOffsets)
    THEN [err |-> RawError("index_out_of_bounds", ""), Name |-> <<>>]
    ELSE readZeroString(NamesBuffer, FileNameOffsets[Index + 1])

\* DbiStream.cpp:428-433: the inner loop for one module.  Files is the
\* module's SourceFiles after resize(NumFiles); J and NextFileIndex advance
\* together.
RECURSIVE AssignSourceFiles(_, _, _, _, _, _)
AssignSourceFiles(Files, J, NumFiles, NextFileIndex, Offsets, Names) ==
    IF J >= NumFiles
    THEN [err |-> Success, Files |-> Files, NextFileIndex |-> NextFileIndex]
    ELSE LET ThisName == getFileNameForIndex(NextFileIndex, Offsets, Names) IN
         IF IsError(ThisName.err)
         THEN [err |-> ThisName.err, Files |-> Files, NextFileIndex |-> NextFileIndex]
         ELSE AssignSourceFiles([Files EXCEPT ![J + 1] = ThisName.Name], J + 1,
                                NumFiles, NextFileIndex + 1, Offsets, Names)

\* A variant that starts every module at offset entry 0.
RECURSIVE AssociateFilesResetCursor(_, _, _, _, _, _)
AssociateFilesResetCursor(Mods, I, NextFileIndex, Counts, Offsets, Names) ==
    IF I >= Len(Mods)
    THEN [err |-> Success, ModuleInfos |-> Mods]
    ELSE LET NumFiles == Counts[I + 1]
             r == AssignSourceFiles([j \in 1..NumFiles |-> <<>>], 0, NumFiles,
                                    0, Offsets, Names)
             Mods2 == [Mods EXCEPT ![I + 1].SourceFiles = r.Files]
         IN IF IsError(r.err)
            THEN [err |-> r.err, ModuleInfos |-> Mods2]
            ELSE AssociateFilesResetCursor(Mods2, I + 1, 0, Counts, Offsets, Names)

\* DbiStream.cpp:424-434: the outer loop over the modules, I 0-based, with
\* the one cursor NextFileIndex carried from module to module.
RECURSIVE AssociateFiles(_, _, _, _, _, _)
AssociateFiles(Mods, I, NextFileIndex, Counts, Offsets, Names) ==
    IF I >= Len(Mods)
    THEN [err |-> Success, ModuleInfos |-> Mods]
    ELSE LET NumFiles == Counts[I + 1]
             r == AssignSourceFiles([j \in 1..NumFiles |-> <<>>], 0, NumFiles,
                                    NextFileIndex, Offsets, Names)
             Mods2 == [Mods EXCEPT ![I + 1].SourceFiles = r.Files]
         IN IF IsError(r.err)
            THEN [err |-> r.err, ModuleInfos |-> Mods2]
            ELSE AssociateFiles(Mods2, I + 1, r.NextFileIndex, Counts, Offsets, Names)

\* A variant that trusts the declared NumSourceFiles.
NumSourceFilesDeclared(FH, Counts) == FH.NumSourceFiles

\* DbiStream.cpp:401-404, 414: the number of FileNameOffsets entries read.
\* FH is the decoded FileInfoSubstreamHeader, Counts the ModFileCountArray.
NumSourceFilesToRead(FH, Counts) == SumSeq(Counts)

\* A variant without the cross-check.
NumModulesUnchecked(FH, N) == TRUE

\* DbiStream.cpp:384: the declared module count against ModuleInfos.size()
NumModulesMatches(FH, N) == FH.NumModules = N

\* DbiStream.cpp:377-436.  Bytes is the FileInfoSubstream.
initializeFileInfo(Bytes, Mods) ==
    LET Size == Len(Bytes)
        N == Len(Mods)
        Fail(e) == [err |-> e, ModuleInfos |-> Mods,
                    FileNameOffsets |-> <<>>, NamesBuffer |-> <<>>]
    IN
    IF ~ReadFits(FileInfoSubstreamHeaderSize, Size) THEN Fail(InsufficientBuffer)
    ELSE
    LET FH == [NumModules |-> ReadU16(Bytes, 0), NumSourceFiles |-> ReadU16(Bytes, 2)]
        IndicesAt == FileInfoSubstreamHeaderSize
        CountsAt == IndicesAt + N * Ulittle16Size
        OffsetsAt == CountsAt + N * Ulittle16Size
    IN
    IF ~NumModulesMatches(FH, N)
    THEN Fail(RawError("corrupt_file", "FileInfo substream count doesn't match DBI."))
    ELSE IF ~ReadFits(N * Ulittle16Size, Size - IndicesAt) THEN Fail(InsufficientBuffer)
    ELSE IF ~ReadFits(N * Ulittle16Size, Size - CountsAt) THEN Fail(InsufficientBuffer)
    ELSE
    LET ModFileCountArray ==
            [i \in 1..N |-> ReadU16(Bytes, CountsAt + (i - 1) * Ulittle16Size)]
        NumSourceFiles == NumSourceFilesToRead(FH, ModFileCountArray)
        NamesAt == OffsetsAt + NumSourceFiles * Uint32Size
    IN
    IF ~ReadFits(NumSourceFiles * Uint32Size, Size - OffsetsAt)
    THEN Fail(InsufficientBuffer)
    ELSE
    LET Offsets ==
            [k \in 1..NumSourceFiles |-> ReadU32(Bytes, OffsetsAt + (k - 1) * Uint32Size)]
        Names == SubSeq(Bytes, NamesAt + 1, Size)
        r == AssociateFiles(Mods, 0, 0, ModFileCountArray, Offsets, Names)
    IN [err |-> r.err, ModuleInfos |-> r.ModuleInfos,
        FileNameOffsets |-> Offsets, NamesBuffer |-> Names]

(***************************************************************************)
(* reload, lines 168-182: the five stream refs and the DbgStreams array    *)
(* are cut from the outer reader one after another; the first read that    *)
(* does not fit ends the step.                                             *)
(***************************************************************************)
SliceSizes(H) ==
    <<H.SecContrSubstreamSize, H.SectionMapSize, H.FileInfoSize,
      H.TypeServerSize, H.ECSubstreamSize>>

\* The number of leading readStreamRef calls that succeed.
RECURSIVE SlicesRead(_, _)
SlicesRead(sizes, remaining) ==
    IF sizes = <<>> \/ ~ReadFits(Head(sizes), remaining)
    THEN 0
    ELSE 1 + SlicesRead(Tail(sizes), remaining - Head(sizes))

\* DbiStream.cpp:180-181: the element count handed to readArray
DbgStreamCount(H) == H.OptionalDbgHdrSize \div Ulittle16Size

(***************************************************************************)
(* The inputs explored: well-formed streams and their perturbations.       *)
(***************************************************************************)
\* "a.c\0b.c\0"
NamesAC == <<97, 46, 99, 0, 98, 46, 99, 0>>
\* the same without the final NUL
NamesUnterminated == <<97, 46, 99, 0, 98, 46, 99>>

\* The stream directory: the length of each stream, by stream number from 0.
BasePdbStreams == <<0, 100, 80, 40, 32, 24>>

\* The eleven-entry debug header: section headers in stream 2, no FPO data.
BaseDbgData == [i \in 1..11 |-> IF i = DbgHeaderType_SectionHdr + 1 THEN 2
                                ELSE InvalidStreamIndex]

ModRecords(n) == [i \in 1..n |-> [ModuleNameLen |-> i, ObjFileNameLen |-> 1]]

FileInfoBytes(NumModules, NumSourceFiles, Indices, Counts, Offsets, Names) ==
    U16Bytes(NumModules) \o U16Bytes(NumSourceFiles)
        \o Concat([i \in 1..Len(Indices) |-> U16Bytes(Indices[i])])
        \o Concat([i \in 1..Len(Counts) |-> U16Bytes(Counts[i])])
        \o Concat([i \in 1..Len(Offsets) |-> U32Bytes(Offsets[i])])
        \o Names

\* A stream whose header declares exactly the slices given.
MkInput(Mods, SCTag, SCSize, SecCount, SMSize, FIBytes, Dbg, Pdb) ==
    LET H == [VersionSignature |-> -1, VersionHeader |-> PdbDbiV70, Age |-> 1,
              ModiSubstreamSize |->
                  SumSeq([i \in 1..Len(Mods) |-> ModInfoRecordLength(Mods[i])]),
              SecContrSubstreamSize |-> SCSize,
              SectionMapSize |-> SMSize,
              FileInfoSize |-> Len(FIBytes),
              TypeServerSize |-> 0,
              OptionalDbgHdrSize |-> Len(Dbg) * Ulittle16Size,
              ECSubstreamSize |-> 8]
    IN [Length |-> HeaderInfoSize + H.ModiSubstreamSize + SCSize + SMSize
                       + Len(FIBytes) + H.TypeServerSize + H.OptionalDbgHdrSize
                       + H.ECSubstreamSize,
        Header |-> H,
        InfoStream |-> [ok |-> TRUE, Age |-> 1, err |-> Success],
        ModiData |-> Mods, SCTag |-> SCTag, SecCount |-> SecCount,
        FileInfoData |-> FIBytes, DbgData |-> Dbg, PdbStreams |-> Pdb,
        ECLoad |-> Success]

\* Two modules, one source file each: the "a.c" / "b.c" scenario.
BaseFileInfo == FileInfoBytes(2, 2, <<0, 1>>, <<1, 1>>, <<0, 4>>, NamesAC)
BaseInput ==
    MkInput(ModRecords(2), DbiSecContribVer60, Uint32Size + SectionContribSize,
            1, SecMapHeaderSize + SecMapEntrySize, BaseFileInfo,
            BaseDbgData, BasePdbStreams)

\* Header perturbations: signature, version, Info stream, age, each declared
\* size moved off its true value, the total length consistent with the
\* declared sizes or not, and a stream too short for a header.
InputsHeader ==
    { [BaseInput EXCEPT
         !.Header = [BaseInput.Header EXCEPT
                       !.VersionSignature = sig, !.VersionHeader = ver,
                       !.Age = age,
                       !.ModiSubstreamSize = @ + d[1],
                       !.SecContrSubstreamSize = @ + d[2],
                       !.SectionMapSize = @ + d[3],
                       !.FileInfoSize = @ + d[4],
                       !.TypeServerSize = @ + d[5],
                       !.OptionalDbgHdrSize = @ + dbg],
         !.InfoStream = [ok |-> isOk, Age |-> 1,
                         err |-> IF isOk THEN Success ELSE RawError("no_stream", "")],
         !.Length = @ + (IF grow THEN d[1] + d[2] + d[3] + d[4] + d[5] + dbg ELSE 0)]
      : sig \in {-1, 0}, ver \in {PdbDbiV70, PdbDbiV60}, age \in {1, 2},
        isOk \in BOOLEAN, d \in [1..5 -> {0, 2}], dbg \in {0, 1}, grow \in BOOLEAN }
    \cup { [BaseInput EXCEPT !.Length = HeaderInfoSize - 4] }

\* Declared sizes that pass the header checks but cannot be read: a negative
\* size made up for by another substream.
InputsNegative ==
    { [BaseInput EXCEPT !.Header = [BaseInput.Header EXCEPT
                                      !.ModiSubstreamSize = -4,
                                      !.ECSubstreamSize = @ + 4
                                          + BaseInput.Header.ModiSubstreamSize]],
      [BaseInput EXCEPT !.Header = [BaseInput.Header EXCEPT
                                      !.TypeServerSize = -4,
                                      !.ECSubstreamSize = @ + 4]] }

\* Section contributions: every tag with every payload size.
InputsSecContr ==
    { MkInput(ModRecords(2), tag, size, 1, SecMapHeaderSize + SecMapEntrySize,
              BaseFileInfo, BaseDbgData, BasePdbStreams)
      : tag \in {DbiSecContribVer60, DbiSecContribV2, <<0, 0, 0, 0>>},
        size \in {0, 8} \cup { Uint32Size + k * SectionContribSize : k \in 0..2 }
                     \cup { Uint32Size + k * SectionContrib2Size : k \in 1..2 } }

\* Section map: declared entry count against the size of the region.
InputsSecMap ==
    { MkInput(ModRecords(2), DbiSecContribVer60, Uint32Size + SectionContribSize,
              cnt, size, BaseFileInfo, BaseDbgData, BasePdbStreams)
      : cnt \in 0..2,
        size \in {0, SecMapHeaderSize, SecMapHeaderSize + SecMapEntrySize} }

\* File-name offset patterns over the two strings of the names buffer.
OffsetPatterns == {"inorder", "reversed", "midstring", "lastbeyond"}
PatternOffsets(pat, n) ==
    [k \in 1..n |->
        CASE pat = "inorder" -> 4 * ((k - 1) % 2)
          [] pat = "reversed" -> 4 * (k % 2)
          [] pat = "midstring" -> 4 * ((k - 1) % 2) + 1
          [] pat = "lastbeyond" -> IF k = n THEN Len(NamesAC) + 1
                                   ELSE 4 * ((k - 1) % 2)]

\* File info: module count, declared NumModules and NumSourceFiles, the
\* per-module counts, the offsets and the names buffer.
InputsFileInfo ==
    UNION { { MkInput(ModRecords(n), DbiSecContribVer60,
                      Uint32Size + SectionContribSize, 1,
                      SecMapHeaderSize + SecMapEntrySize,
                      FileInfoBytes(nm, nsf, [i \in 1..n |-> i - 1], cnt,
                                    PatternOffsets(pat, SumSeq(cnt)), names),
                      BaseDbgData, BasePdbStreams)
              : cnt \in [1..n -> 0..MaxFileCount], nm \in {n, n + 1},
                nsf \in {0, 1, 65535}, pat \in OffsetPatterns,
                names \in {NamesAC, NamesUnterminated} }
            : n \in 0..MaxModules }

\* Debug header: the number of entries and the section-header and FPO slots.
InputsDbg ==
    { MkInput(ModRecords(2), DbiSecContribVer60, Uint32Size + SectionContribSize,
              1, SecMapHeaderSize + SecMapEntrySize, BaseFileInfo,
              [i \in 1..cnt |-> IF i = DbgHeaderType_SectionHdr + 1 THEN sh
                                ELSE IF i = DbgHeaderType_NewFPO + 1 THEN fpo
                                ELSE InvalidStreamIndex],
              BasePdbStreams)
      : cnt \in {0, 5, 6, 9, 10, 11}, sh \in {2, 5, 6, InvalidStreamIndex},
        fpo \in {4, 5, 6, 7, InvalidStreamIndex} }

\* The EC names loader rejecting its substream.
InputsEC == { [BaseInput EXCEPT !.ECLoad = RawError("corrupt_file", "")] }

Inputs ==
    InputsHeader \cup InputsNegative \cup InputsSecContr \cup InputsSecMap
        \cup InputsFileInfo \cup InputsDbg \cup InputsEC

(***************************************************************************)
(* State: the members of DbiStream, the outer reader's cursor, the control *)
(* point of reload, and what reload returned.  "in" is the stream and its  *)
(* collaborators.  ran, stepErrors, lookups and fetched record what        *)
(* happened: the steps run, the error each produced, the elements of       *)
(* DbgStreams asked for, and the streams fetched from the directory.       *)
(***************************************************************************)
VARIABLES in, pc, result, Offset, Header, ModuleInfos,
          SecContrSubstream, SecMapSubstream, FileInfoSubstream,
          TypeServerMapSubstream, ECSubstream, DbgStreams,
          SectionContribVersion, SectionContribs, SectionContribs2,
          SectionHeaders, SectionMap, FileNameOffsets, NamesBuffer, FpoRecords,
          Visited, ran, stepErrors, lookups, fetched

vars == <<in, pc, result, Offset, Header, ModuleInfos,
          SecContrSubstream, SecMapSubstream, FileInfoSubstream,
          TypeServerMapSubstream, ECSubstream, DbgStreams,
          SectionContribVersion, SectionContribs, SectionContribs2,
          SectionHeaders, SectionMap, FileNameOffsets, NamesBuffer, FpoRecords,
          Visited, ran, stepErrors, lookups, fetched>>

members == <<Header, ModuleInfos,
             SecContrSubstream, SecMapSubstream, FileInfoSubstream,
             TypeServerMapSubstream, ECSubstream, DbgStreams,
             SectionContribVersion, SectionContribs, SectionContribs2,
             SectionHeaders, SectionMap, FileNameOffsets, NamesBuffer, FpoRecords>>

NoResult == [kind |-> "none", msg |-> ""]
\* Header(nullptr), DbiStream.cpp:97
NullHeader == [null |-> TRUE]
\* SectionContribVersion before readEnum has stored a tag
NoVersion == <<>>

\* The order of the steps of reload, DbiStream.cpp:103-204.
StepOrder ==
    <<"HeaderChecks", "ModuleDecode", "RegionSlicing", "SectionContributions",
      "SectionHeaders", "SectionMap", "FileInfo", "FpoRecords", "LeftoverCheck",
      "ECNamesLoad">>

\* DbiStream.cpp:96-99: the state after construction, for each input.
Init ==
    /\ in \in Inputs
    /\ pc = "HeaderChecks"
    /\ result = NoResult
    /\ Offset = 0
    /\ Header = NullHeader
    /\ ModuleInfos = <<>>
    /\ SecContrSubstream = [Size |-> 0, Tag |-> <<>>]
    /\ SecMapSubstream = [Size |-> 0, SecCount |-> 0]
    /\ FileInfoSubstream = <<>>
    /\ TypeServerMapSubstream = [Size |-> 0]
    /\ ECSubstream = [Size |-> 0]
    /\ DbgStreams = <<>>
    /\ SectionContribVersion = NoVersion
    /\ SectionContribs = <<>>
    /\ SectionContribs2 = <<>>
    /\ SectionHeaders = <<>>
    /\ SectionMap = <<>>
    /\ FileNameOffsets = <<>>
    /\ NamesBuffer = <<>>
    /\ FpoRecords = <<>>
    /\ Visited = <<>>
    /\ ran = <<>>
    /\ stepErrors = <<>>
    /\ lookups = <<>>
    /\ fetched = <<>>

\* A variant that wraps a step's error in a new one.
ReturnedErrorRewrapped(EC) == RawError("corrupt_file", "DBI step failed.")

\* "if (auto EC = step) return EC;": what reload returns for a failed step.
ReturnedError(EC) == EC

\* The control point after a step that produced EC: the next step, or the
\* return from reload.
AfterStep(EC, next) == IF IsError(EC) THEN "returned" ELSE next

\* The bookkeeping common to every step of reload.
Finish(step, EC, next) ==
    /\ ran' = Append(ran, step)
    /\ stepErrors' = Append(stepErrors, EC)
    /\ pc' = AfterStep(EC, next)
    /\ result' = IF IsError(EC) THEN ReturnedError(EC)
                 ELSE IF next = "returned" THEN Success
                 ELSE result

\* DbiStream.cpp:104-157
ReloadHeaderChecks ==
    /\ pc = "HeaderChecks"
    /\ LET EC == HeaderChecks(in) IN
       /\ Header' = IF in.Length >= HeaderInfoSize THEN in.Header ELSE Header
       /\ Offset' = IF in.Length >= HeaderInfoSize THEN HeaderInfoSize ELSE Offset
       /\ Finish("HeaderChecks", EC, "ModuleDecode")
    /\ UNCHANGED <<in, ModuleInfos, SecContrSubstream, SecMapSubstream,
                   FileInfoSubstream, TypeServerMapSubstream, ECSubstream,
                   DbgStreams, SectionContribVersion, SectionContribs,
                   SectionContribs2, SectionHeaders, SectionMap, FileNameOffsets,
                   NamesBuffer, FpoRecords, Visited, lookups, fetched>>

\* DbiStream.cpp:159-166
ReloadModuleDecode ==
    /\ pc = "ModuleDecode"
    /\ LET Size == Header.ModiSubstreamSize
           fits == ReadFits(Size, in.Length - Offset)
       IN /\ Offset' = IF fits THEN Offset + Size ELSE Offset
          /\ ModuleInfos' = IF fits
                            THEN EmplaceModuleInfos(IterateModInfo(in.ModiData, Size))
                            ELSE ModuleInfos
          /\ Finish("ModuleDecode", IF fits THEN Success ELSE InsufficientBuffer,
                    "RegionSlicing")
    /\ UNCHANGED <<in, Header, SecContrSubstream, SecMapSubstream,
                   FileInfoSubstream, TypeServerMapSubstream, ECSubstream,
                   DbgStreams, SectionContribVersion, SectionContribs,
                   SectionContribs2, SectionHeaders, SectionMap, FileNameOffsets,
                   NamesBuffer, FpoRecords, Visited, lookups, fetched>>

\* DbiStream.cpp:168-182
ReloadRegionSlicing ==
    /\ pc = "RegionSlicing"
    /\ LET sizes == SliceSizes(Header)
           k == SlicesRead(sizes, in.Length - Offset)
           after == Offset + SumSeq(SubSeq(sizes, 1, k))
           count == DbgStreamCount(Header)
           dbgFits == k = 5 /\ ReadFits(count * Ulittle16Size, in.Length - after)
       IN /\ SecContrSubstream' =
                 IF k >= 1 THEN [Size |-> sizes[1], Tag |-> in.SCTag]
                 ELSE SecContrSubstream
          /\ SecMapSubstream' =
                 IF k >= 2 THEN [Size |-> sizes[2], SecCount |-> in.SecCount]
                 ELSE SecMapSubstream
          /\ FileInfoSubstream' =
                 IF k >= 3 THEN SubSeq(in.FileInfoData, 1, sizes[3])
                 ELSE FileInfoSubstream
          /\ TypeServerMapSubstream' =
                 IF k >= 4 THEN [Size |-> sizes[4]] ELSE TypeServerMapSubstream
          /\ ECSubstream' = IF k >= 5 THEN [Size |-> sizes[5]] ELSE ECSubstream
          /\ DbgStreams' = IF dbgFits THEN SubSeq(in.DbgData, 1, count) ELSE DbgStreams
          /\ Offset' = IF dbgFits THEN after + count * Ulittle16Size ELSE after
          /\ Finish("RegionSlicing", IF dbgFits THEN Success ELSE InsufficientBuffer,
                    "SectionContributions")
    /\ UNCHANGED <<in, Header, ModuleInfos, SectionContribVersion, SectionContribs,
                   SectionContribs2, SectionHeaders, SectionMap, FileNameOffsets,
                   NamesBuffer, FpoRecords, Visited, lookups, fetched>>

\* DbiStream.cpp:184-185
ReloadSectionContributions ==
    /\ pc = "SectionContributions"
    /\ LET r == initializeSectionContributionData(SecContrSubstream,
                                                  SectionContribVersion)
       IN /\ SectionContribVersion' = r.Version
          /\ SectionContribs' = r.SectionContribs
          /\ SectionContribs2' = r.SectionContribs2
          /\ Finish("SectionContributions", r.err, "SectionHeaders")
    /\ UNCHANGED <<in, Offset, Header, ModuleInfos, SecContrSubstream,
                   SecMapSubstream, FileInfoSubstream, TypeServerMapSubstream,
                   ECSubstream, DbgStreams, SectionHeaders, SectionMap,
                   FileNameOffsets, NamesBuffer, FpoRecords, Visited, lookups,
                   fetched>>

\* The process stopped inside FixedStreamArray::operator[]: reload never
\* returns.
Crash(step) ==
    /\ pc' = "crashed"
    /\ ran' = Append(ran, step)
    /\ UNCHANGED <<result, stepErrors, fetched, members>>

\* DbiStream.cpp:186-187
ReloadSectionHeaders ==
    /\ pc = "SectionHeaders"
    /\ lookups' = Append(lookups, [Type |-> DbgHeaderType_SectionHdr,
                                   Count |-> Len(DbgStreams)])
    /\ \E StreamNum \in getDebugStreamIndex(DbgStreams, DbgHeaderType_SectionHdr,
                                            Len(in.PdbStreams)) :
          IF StreamNum = Crashed
          THEN Crash("SectionHeaders")
          ELSE LET r == initializeSectionHeadersData(StreamNum, in.PdbStreams)
               IN /\ SectionHeaders' = r.Records
                  /\ fetched' = fetched \o r.Fetched
                  /\ Finish("SectionHeaders", r.err, "SectionMap")
                  /\ UNCHANGED <<Header, ModuleInfos, SecContrSubstream,
                                 SecMapSubstream, FileInfoSubstream,
                                 TypeServerMapSubstream, ECSubstream, DbgStreams,
                                 SectionContribVersion, SectionContribs,
                                 SectionContribs2, SectionMap, FileNameOffsets,
                                 NamesBuffer, FpoRecords>>
    /\ UNCHANGED <<in, Offset, Visited>>

\* DbiStream.cpp:188-189
ReloadSectionMap ==
    /\ pc = "SectionMap"
    /\ LET r == initializeSectionMapData(SecMapSubstream)
       IN /\ SectionMap' = r.SectionMap
          /\ Finish("SectionMap", r.err, "FileInfo")
    /\ UNCHANGED <<in, Offset, Header, ModuleInfos, SecContrSubstream,
                   SecMapSubstream, FileInfoSubstream, TypeServerMapSubstream,
                   ECSubstream, DbgStreams, SectionContribVersion, SectionContribs,
                   SectionContribs2, SectionHeaders, FileNameOffsets, NamesBuffer,
                   FpoRecords, Visited, lookups, fetched>>

\* DbiStream.cpp:190-191
ReloadFileInfo ==
    /\ pc = "FileInfo"
    /\ LET r == initializeFileInfo(FileInfoSubstream, ModuleInfos)
       IN /\ ModuleInfos' = r.ModuleInfos
          /\ FileNameOffsets' = r.FileNameOffsets
          /\ NamesBuffer' = r.NamesBuffer
          /\ Finish("FileInfo", r.err, "FpoRecords")
    /\ UNCHANGED <<in, Offset, Header, SecContrSubstream, SecMapSubstream,
                   FileInfoSubstream, TypeServerMapSubstream, ECSubstream,
                   DbgStreams, SectionContribVersion, SectionContribs,
                   SectionContribs2, SectionHeaders, SectionMap, FpoRecords,
                   Visited, lookups, fetched>>

\* DbiStream.cpp:192-193
ReloadFpoRecords ==
    /\ pc = "FpoRecords"
    /\ lookups' = Append(lookups, [Type |-> DbgHeaderType_NewFPO,
                                   Count |-> Len(DbgStreams)])
    /\ \E StreamNum \in getDebugStreamIndex(DbgStreams, DbgHeaderType_NewFPO,
                                            Len(in.PdbStreams)) :
          IF StreamNum = Crashed
          THEN Crash("FpoRecords")
          ELSE LET r == initializeFpoRecords(StreamNum, in.PdbStreams)
               IN /\ FpoRecords' = r.Records
                  /\ fetched' = fetched \o r.Fetched
                  /\ Finish("FpoRecords", r.err, "LeftoverCheck")
                  /\ UNCHANGED <<Header, ModuleInfos, SecContrSubstream,
                                 SecMapSubstream, FileInfoSubstream,
                                 TypeServerMapSubstream, ECSubstream, DbgStreams,
                                 SectionContribVersion, SectionContribs,
                                 SectionContribs2, SectionHeaders, SectionMap,
                                 FileNameOffsets, NamesBuffer>>
    /\ UNCHANGED <<in, Offset, Visited>>

\* DbiStream.cpp:195-197
ReloadLeftoverCheck ==
    /\ pc = "LeftoverCheck"
    /\ Finish("LeftoverCheck",
              IF in.Length - Offset > 0
              THEN RawError("corrupt_file", "Found unexpected bytes in DBI Stream.")
              ELSE Success,
              "ECNamesLoad")
    /\ UNCHANGED <<in, Offset, Visited, lookups, fetched, members>>

\* DbiStream.cpp:199-203: the name-hash-table loader decides.
ReloadECNamesLoad ==
    /\ pc = "ECNamesLoad"
    /\ Finish("ECNamesLoad", in.ECLoad, "returned")
    /\ UNCHANGED <<in, Offset, Visited, lookups, fetched, members>>

\* DbiStream.cpp:266-275, called on a stream whose reload has returned with
\* the version tag read.
VisitSectionContributions ==
    /\ pc = "returned"
    /\ SectionContribVersion # NoVersion
    /\ Visited' = visitSectionContributions(SectionContribVersion, SectionContribs,
                                            SectionContribs2)
    /\ pc' = "visited"
    /\ UNCHANGED <<in, result, Offset, ran, stepErrors, lookups, fetched, members>>

Next ==
    \/ ReloadHeaderChecks
    \/ ReloadModuleDecode
    \/ ReloadRegionSlicing
    \/ ReloadSectionContributions
    \/ ReloadSectionHeaders
    \/ ReloadSectionMap
    \/ ReloadFileInfo
    \/ ReloadFpoRecords
    \/ ReloadLeftoverCheck
    \/ ReloadECNamesLoad
    \/ VisitSectionContributions

Spec == Init /\ [][Next]_vars

(***************************************************************************)
(* Properties.                                                             *)
(***************************************************************************)
Returned == pc \in {"returned", "visited"}
HeaderRead == in.Length >= HeaderInfoSize
\* The step has run to its end and ErrorOf(step) is what it produced.
StepDone(step) == \E k \in 1..Len(stepErrors) : ran[k] = step
ErrorOf(step) == stepErrors[CHOOSE k \in 1..Len(stepErrors) : ran[k] = step]

\* The checks of reload that come before the length check all pass.
PassesUpToAge ==
    /\ HeaderRead
    /\ in.Header.VersionSignature = -1
    /\ in.Header.VersionHeader >= PdbDbiV70
    /\ in.InfoStream.ok
    /\ in.Header.Age = in.InfoStream.Age

DeclaredSum ==
    64 + in.Header.ModiSubstreamSize + in.Header.SecContrSubstreamSize
       + in.Header.SectionMapSize + in.Header.FileInfoSize
       + in.Header.TypeServerSize + in.Header.OptionalDbgHdrSize
       + in.Header.ECSubstreamSize

LengthError ==
    RawError("corrupt_file", "DBI Length does not equal sum of substreams.")

CheckedSizes ==
    <<in.Header.ModiSubstreamSize, in.Header.SecContrSubstreamSize,
      in.Header.SectionMapSize, in.Header.FileInfoSize, in.Header.TypeServerSize>>
AlignmentMessages ==
    <<"DBI MODI substream not aligned.",
      "DBI section contribution substream not aligned.",
      "DBI section map substream not aligned.",
      "DBI file info substream not aligned.",
      "DBI type server substream not aligned.">>
Misaligned(i) == CheckedSizes[i] % 4 # 0

\* C1 as stated: for every stream with a header, a total length different
\* from 64 plus the declared substream sizes makes reload fail with
\* CorruptFile, and an equal length lets the header stage pass.
C1_AsStated ==
    (Returned /\ HeaderRead) =>
        /\ (in.Length # DeclaredSum => result.kind = "corrupt_file")
        /\ (in.Length = DeclaredSum => ErrorOf("HeaderChecks") = Success)

\* C1 amended: for every stream that passes the checks before the length
\* check (header present, signature, version, Info stream, age), a total
\* length different from 64 plus the seven declared substream sizes makes
\* reload fail with the CorruptFile length error; an equal length passes the
\* length check, and the header stage then fails only for a misaligned size.
C1_LengthCheck ==
    (Returned /\ PassesUpToAge) =>
        /\ (in.Length # DeclaredSum => result = LengthError)
        /\ (in.Length = DeclaredSum =>
               /\ ErrorOf("HeaderChecks") # LengthError
               /\ ((\A i \in 1..5 : ~Misaligned(i)) => ErrorOf("HeaderChecks") = Success))

C1_Witness ==
    /\ Returned /\ PassesUpToAge
    /\ in.Length # DeclaredSum
    /\ in.Header.OptionalDbgHdrSize % 2 = 1
    /\ result = LengthError

\* C2 as stated: for every header, an Age different from the Info stream's
\* age makes reload fail with CorruptFile.
C2_AsStated ==
    (Returned /\ HeaderRead /\ in.InfoStream.ok
        /\ in.Header.Age # in.InfoStream.Age) => result.kind = "corrupt_file"

\* C2 amended: for every header whose VersionHeader is at least PdbDbiV70,
\* with the Info stream available, an Age different from the Info stream's
\* age makes reload fail with CorruptFile; with a valid signature the error
\* is the age error.
C2_AgeMismatch ==
    (Returned /\ HeaderRead /\ in.Header.VersionHeader >= PdbDbiV70
        /\ in.InfoStream.ok /\ in.Header.Age # in.InfoStream.Age) =>
        /\ result.kind = "corrupt_file"
        /\ (in.Header.VersionSignature = -1 =>
               result.msg = "DBI Age does not match PDB Age.")

C2_Witness ==
    /\ Returned /\ HeaderRead
    /\ in.Header.VersionHeader >= PdbDbiV70 /\ in.Header.VersionSignature = -1
    /\ in.InfoStream.ok /\ in.Header.Age # in.InfoStream.Age
    /\ in.Length = DeclaredSum /\ \A i \in 1..5 : ~Misaligned(i)
    /\ result.msg = "DBI Age does not match PDB Age."

\* C3 as stated: whenever one of the five size-checked substreams has a size
\* that is not a multiple of 4, reload fails with CorruptFile and the error
\* names that substream.
C3_AsStated ==
    (Returned /\ HeaderRead) =>
        \A i \in 1..5 :
            Misaligned(i) => result = RawError("corrupt_file", AlignmentMessages[i])

\* C3 amended: when reload reaches the alignment checks (header present,
\* signature, version, Info stream, age and total length pass) and one of the
\* five size-checked substreams has a size that is not a multiple of 4,
\* reload fails with CorruptFile and the error names the first such substream
\* in the order module-info, section-contribution, section-map, file-info,
\* type-server map.
C3_FirstMisaligned ==
    (Returned /\ PassesUpToAge /\ in.Length = DeclaredSum) =>
        \A i \in 1..5 :
            (Misaligned(i) /\ \A j \in 1..(i - 1) : ~Misaligned(j)) =>
                result = RawError("corrupt_file", AlignmentMessages[i])

C3_Witness ==
    /\ Returned /\ PassesUpToAge /\ in.Length = DeclaredSum
    /\ ~Misaligned(1) /\ ~Misaligned(2) /\ Misaligned(3) /\ Misaligned(5)
    /\ result = RawError("corrupt_file", AlignmentMessages[3])

\* The tag and payload of the section-contribution region, once the tag
\* could be read.
TagRead == StepDone("SectionContributions") /\ SecContrSubstream.Size >= 4
Payload == SecContrSubstream.Size - 4
RecordOffsets(size) == [i \in 1..(Payload \div size) |-> (i - 1) * size]

\* C4: the outcome of section-contribution decoding is decided by the tag:
\* V60 leaves the V2 array empty and, when the load succeeds, fills the V60
\* array with the 28-byte records of the payload; V2 likewise with the V2
\* array and 32-byte records; any other tag gives UnsupportedFeature and
\* fills neither; the two arrays are never both populated; and the visitor
\* is handed exactly the records of the populated array, in order.
C4_SectionContribDispatch ==
    /\ ~(SectionContribs # <<>> /\ SectionContribs2 # <<>>)
    /\ TagRead =>
        /\ SectionContribVersion = SecContrSubstream.Tag
        /\ (SecContrSubstream.Tag = DbiSecContribVer60 =>
               /\ SectionContribs2 = <<>>
               /\ ErrorOf("SectionContributions").kind \in {"success", "corrupt_file"}
               /\ (ErrorOf("SectionContributions") = Success
                      <=> Payload % 28 = 0)
               /\ SectionContribs =
                      IF Payload % 28 = 0 THEN RecordOffsets(28) ELSE <<>>)
        /\ (SecContrSubstream.Tag = DbiSecContribV2 =>
               /\ SectionContribs = <<>>
               /\ ErrorOf("SectionContributions").kind \in {"success", "corrupt_file"}
               /\ (ErrorOf("SectionContributions") = Success
                      <=> Payload % 32 = 0)
               /\ SectionContribs2 =
                      IF Payload % 32 = 0 THEN RecordOffsets(32) ELSE <<>>)
        /\ (SecContrSubstream.Tag \notin {DbiSecContribVer60, DbiSecContribV2} =>
               /\ ErrorOf("SectionContributions").kind = "feature_unsupported"
               /\ SectionContribs = <<>> /\ SectionContribs2 = <<>>)
        /\ (pc = "visited" =>
               /\ Len(Visited) = Len(SectionContribs) + Len(SectionContribs2)
               /\ \A i \in 1..Len(Visited) :
                     IF SectionContribs # <<>>
                     THEN Visited[i] = [Layout |-> "SectionContrib",
                                        Record |-> SectionContribs[i]]
                     ELSE Visited[i] = [Layout |-> "SectionContrib2",
                                        Record |-> SectionContribs2[i]])

C4_Witness ==
    /\ pc = "visited" /\ result = Success
    /\ SecContrSubstream.Tag = DbiSecContribV2
    /\ SectionContribs = <<>>
    /\ Len(SectionContribs2) = 2
    /\ Len(Visited) = 2

\* The file-info header's fields and the arrays behind it, decoded from the
\* bytes of the substream.
FileInfoHeaderRead == StepDone("FileInfo") /\ Len(FileInfoSubstream) >= 4
DeclaredNumModules == FileInfoSubstream[1] + 256 * FileInfoSubstream[2]
DeclaredNumSourceFiles == FileInfoSubstream[3] + 256 * FileInfoSubstream[4]
NumModuleRecords == Len(ModuleInfos)
ModFileCount(i) ==
    LET at == 4 + 2 * NumModuleRecords + 2 * (i - 1)
    IN FileInfoSubstream[at + 1] + 256 * FileInfoSubstream[at + 2]
CountMismatchError ==
    RawError("corrupt_file", "FileInfo substream count doesn't match DBI.")

RECURSIVE RecordLengths(_)
RecordLengths(recs) ==
    IF recs = <<>> THEN 0
    ELSE Align4(64 + Head(recs).ModuleNameLen + 1 + Head(recs).ObjFileNameLen + 1)
             + RecordLengths(Tail(recs))

\* C5: the module count is the number of records in the module-info region
\* (for a region that holds whole records, as many modules as records); the
\* file-info pass compares the header's 16-bit NumModules with it; whenever
\* they differ reload fails with CorruptFile, and when reload succeeds they
\* are equal.
C5_ModuleCountCrossCheck ==
    /\ (StepDone("ModuleDecode") /\ ErrorOf("ModuleDecode") = Success
           /\ Header.ModiSubstreamSize = RecordLengths(in.ModiData)) =>
           NumModuleRecords = Len(in.ModiData)
    /\ (FileInfoHeaderRead /\ DeclaredNumModules # NumModuleRecords) =>
           /\ Returned
           /\ result = CountMismatchError
    /\ (Returned /\ result = Success) => DeclaredNumModules = NumModuleRecords

C5_Witness ==
    /\ Returned /\ FileInfoHeaderRead
    /\ NumModuleRecords = 2 /\ DeclaredNumModules = 3
    /\ result = CountMismatchError

\* The file-info substream with another declared NumSourceFiles.
WithNumSourceFiles(bytes, nsf) ==
    [bytes EXCEPT ![3] = nsf % 256, ![4] = nsf \div 256]
\* ModuleInfos as the module decode left it, before the file-info pass.
ModulesBeforeFileInfo ==
    [i \in 1..Len(ModuleInfos) |-> [ModuleInfos[i] EXCEPT !.SourceFiles = <<>>]]
OtherNumSourceFiles == {0, 1, 2, 3, 255, 256, 65535}

\* C6: the declared NumSourceFiles does not influence decoding: the
\* file-info pass over the same substream with any other declared value
\* gives the same error or success, the same offsets and names buffer and
\* the same per-module source-file lists; and the number of offsets read is
\* the sum of the per-module counts.
C6_NumSourceFilesIgnored ==
    FileInfoHeaderRead =>
        /\ \A nsf \in OtherNumSourceFiles :
              LET r == initializeFileInfo(WithNumSourceFiles(FileInfoSubstream, nsf),
                                          ModulesBeforeFileInfo)
              IN /\ r.err = ErrorOf("FileInfo")
                 /\ r.ModuleInfos = ModuleInfos
                 /\ r.FileNameOffsets = FileNameOffsets
                 /\ r.NamesBuffer = NamesBuffer
        /\ ErrorOf("FileInfo") = Success =>
              Len(FileNameOffsets) =
                  SumSeq([i \in 1..NumModuleRecords |-> ModFileCount(i)])

C6_Witness ==
    /\ Returned /\ result = Success
    /\ FileInfoHeaderRead
    /\ DeclaredNumSourceFiles = 65535
    /\ Len(FileNameOffsets) = 3
    /\ ModuleInfos[2].SourceFiles # <<>>

\* The 0-based index of the first offset entry of module i.
FirstFileIndex(i) == SumSeq([k \in 1..(i - 1) |-> ModFileCount(k)])
\* name is the NUL-terminated string at 0-based offset off of buf.
IsZeroStringAt(name, buf, off) ==
    /\ off + Len(name) < Len(buf)
    /\ \A c \in 1..Len(name) : name[c] = buf[off + c] /\ name[c] # 0
    /\ buf[off + Len(name) + 1] = 0

\* C7: after a successful file-info pass, module i has exactly
\* ModFileCounts[i] source files and the j-th is the NUL-terminated string at
\* offset FileNameOffsets[(sum of ModFileCounts[k], k < i) + j] of the names
\* buffer: one cursor runs across all modules.
C7_RunningCursor ==
    (StepDone("FileInfo") /\ ErrorOf("FileInfo") = Success) =>
        \A i \in 1..NumModuleRecords :
            /\ Len(ModuleInfos[i].SourceFiles) = ModFileCount(i)
            /\ \A j \in 1..ModFileCount(i) :
                  IsZeroStringAt(ModuleInfos[i].SourceFiles[j], NamesBuffer,
                                 FileNameOffsets[FirstFileIndex(i) + j])

\* "a.c" for module 0, "b.c" for module 1
C7_Witness ==
    /\ StepDone("FileInfo") /\ ErrorOf("FileInfo") = Success
    /\ NamesBuffer = NamesAC
    /\ FileNameOffsets = <<0, 4>>
    /\ ModuleInfos[1].SourceFiles = << <<97, 46, 99>> >>
    /\ ModuleInfos[2].SourceFiles = << <<98, 46, 99>> >>

\* The debug-stream-index entry of the FPO kind, when the array has one.
HasFpoEntry == Len(DbgStreams) > 9
FpoEntry == DbgStreams[10]
NumStreams == Len(in.PdbStreams)
\* The streams fetched before the FPO pass: the section-header stream.
FetchedBeforeFpo == <<DbgStreams[6]>>

\* C8: when the debug-stream-index entry of the FPO kind is the all-ones
\* sentinel, the FPO pass succeeds, fetches no stream and leaves
\* getFpoRecords() empty; when the entry is not the sentinel and not below
\* the directory's stream count, reload fails with NoSuchStream.
C8_FpoSentinel ==
    (StepDone("FpoRecords") /\ HasFpoEntry) =>
        /\ (FpoEntry = 65535 =>
               /\ ErrorOf("FpoRecords") = Success
               /\ fetched = FetchedBeforeFpo
               /\ FpoRecords = <<>>)
        /\ ((FpoEntry # 65535 /\ FpoEntry >= NumStreams) =>
               /\ Returned
               /\ result.kind = "no_stream"
               /\ fetched = FetchedBeforeFpo)

C8_Witness ==
    /\ Returned /\ result = Success
    /\ HasFpoEntry /\ FpoEntry = 65535
    /\ fetched = <<2>>
    /\ FpoRecords = <<>>

\* C9: reload runs its steps in the one order header checks, module decode,
\* region slicing, section contributions, section headers, section map, file
\* info, FPO records, leftover-bytes check, EC names load; a step runs only
\* after every earlier step succeeded; once a step fails no later step runs
\* and reload returns that step's error unchanged; reload returns success
\* only when all ten steps succeeded.
C9_FailFast ==
    /\ Len(ran) <= Len(StepOrder)
    /\ \A k \in 1..Len(ran) : ran[k] = StepOrder[k]
    /\ \A k \in 1..Len(stepErrors) : k < Len(ran) => stepErrors[k] = Success
    /\ (stepErrors # <<>> /\ stepErrors[Len(stepErrors)] # Success) =>
           /\ Returned
           /\ Len(ran) = Len(stepErrors)
           /\ result = stepErrors[Len(stepErrors)]
    /\ Returned =>
           /\ Len(stepErrors) = Len(ran)
           /\ result = stepErrors[Len(stepErrors)]
           /\ (result = Success <=>
                  /\ Len(ran) = 10
                  /\ \A k \in 1..10 : stepErrors[k] = Success)

C9_Witness ==
    /\ Returned
    /\ ran = SubSeq(StepOrder, 1, 6)
    /\ result = InsufficientBuffer
    /\ FileNameOffsets = <<>> /\ FpoRecords = <<>>

\* C10: every lookup in the debug-stream-index array during reload reads an
\* element the array has: the kind's index is below the number of elements.
C10_LookupInRange ==
    \A k \in 1..Len(lookups) : lookups[k].Type < lookups[k].Count

====
